---- MODULE Spec2Model ----
(***************************************************************************)
(* Model of src/src/App.tsx: the ImageSegmentation component.  State is    *)
(* the component's React state and refs, the canvas context, and one       *)
(* record per call of handleImage (its captured values and the await it is *)
(* suspended at).  JavaScript runs each stretch of code between two awaits *)
(* to completion, so each such stretch is one action.                      *)
(***************************************************************************)
EXTENDS Integers, Sequences, FiniteSets, TLC

\* ------------------------------------------------------------- bounds
\* Number of presses of 'Segment pictures' the model follows.
MaxRuns == 2

\* Number of presses of 'Prev' and 'Next' the model follows while runs are
\* in flight.
MaxNavPresses == 1

\* Largest height and width of the masks the paint loops are applied to on
\* their own.
MaxSide == 2

\* Largest number of classes of the score tensors decoded on their own.
MaxClasses == 3

\* Largest small height and width of the images the scale factor is computed
\* for on its own (the target box's own sides are added to them).
MaxScaleSide == 7

\* ---------------------------------------------------------- constants
IMAGES ==
  << "airplane_resized.jpeg", "voc2012_02.jpeg", "voc2012_06.jpeg",
     "voc2012_13.jpeg", "voc2012_07.jpeg", "voc2012_08.jpeg", "deeplab1.png" >>

PALETTE ==
  << "aliceblue", "cornflowerblue", "cornsilk", "crimson", "cyan", "darkblue",
     "darkcyan", "darkgoldenrod", "darkgray", "antiquewhite", "aqua",
     "aquamarine", "beige", "blue", "blueviolet", "brown", "burlywood",
     "cadetblue", "chartreuse", "chocolate", "coral" >>

\* The 250 of Math.min(250 / height, windowWidth / width).
CanvasHeight == 250

\* Values of Dimensions.get('window').width.
WindowWidths == {400}

\* <<height, width>> of the images ImageUtil.fromURL may deliver.
ImageDims == { <<1, 1>> }

\* Class counts of the tensors model.forward may deliver: the palette's own
\* length, and one class more.
NumClassesChoices == { Len(PALETTE), Len(PALETTE) + 1 }

NullModel == "null"
TheModel  == "model"
NullCtx   == "null"
TheCtx    == "ctx"
Undefined == "undefined"
NoImage   == <<0, 0>>
NoUrl     == ""

VARIABLES
  isReady,        \* useModel(MODEL).isReady
  model,          \* useModel(MODEL).model
  isProcessing,   \* React state, line 76
  context2DRef,   \* context2DRef.current, line 78
  imageIndex,     \* React state, line 80
  canvas,         \* the CanvasRenderingContext2D behind context2DRef
  alerts,         \* number of Alert.alert calls
  navPresses,     \* number of presses of 'Prev' and 'Next' so far
  runs,           \* one record per call of handleImage, in call order
  probe           \* a function of the pipeline applied on its own: its
                  \* input and, once applied, its result

vars == << isReady, model, isProcessing, context2DRef, imageIndex, canvas,
           alerts, navPresses, runs, probe >>

\* ------------------------------------------------------------ helpers
RECURSIVE GCD(_, _)
GCD(a, b) == IF b = 0 THEN a ELSE GCD(b, a % b)

\* A rational number <<n, d>> in lowest terms.
Rat(n, d) == LET g == GCD(n, d) IN << n \div g, d \div g >>

RatMul(p, q) == Rat(p[1] * q[1], p[2] * q[2])

\* The larger of two positive rationals: Math.max where Math.min is meant.
RatMin_TakesLarger(p, q) == IF p[1] * q[2] <= q[1] * p[2] THEN q ELSE p

\* Math.min(a, b) of two positive rationals.
RatMin(p, q) == IF p[1] * q[2] <= q[1] * p[2] THEN p ELSE q

\* PALETTE[idx], a JavaScript array read: undefined beyond the last element.
PaletteAt(idx) ==
  IF idx >= 0 /\ idx < Len(PALETTE) THEN PALETTE[idx + 1] ELSE Undefined

\* ------------------------------------------------------- mask decoding
\* Tensors are sequences of sequences, indices from 1 here.  The tensor
\* operations of line 119 belong to the tensor library; they are written
\* down from the spec's section on decoding (argmax over the class axis,
\* ties broken by the lowest index, result in row-major order).

\* tensor.squeeze(0): the leading dimension of size 1 removed.
Squeeze0(t) == IF Len(t) = 1 THEN t[1] ELSE t

\* The scores of a three-dimensional tensor along dimension dim, at the
\* position (a, b) of the two other dimensions.
TensorLine(t, dim, a, b) ==
  IF dim = 0 THEN [ k \in 1..Len(t) |-> t[k][a][b] ]
  ELSE IF dim = 1 THEN [ k \in 1..Len(t[1]) |-> t[a][k][b] ]
  ELSE [ k \in 1..Len(t[1][1]) |-> t[a][b][k] ]

\* The reduction of one line from position c on, best being the position of
\* the running maximum: a later score replaces it only when greater.
RECURSIVE ArgmaxScan(_, _, _)
ArgmaxScan(line, c, best) ==
  IF c > Len(line) THEN best
  ELSE ArgmaxScan(line, c + 1, IF line[c] > line[best] THEN c ELSE best)

\* tensor.argmax({dim}) of a three-dimensional tensor: the two other
\* dimensions remain, each entry the index (from 0) of the maximum along dim.
TensorArgmax(t, dim) ==
  LET shape == << Len(t), Len(t[1]), Len(t[1][1]) >>
      rows  == IF dim = 0 THEN shape[2] ELSE shape[1]
      cols  == IF dim = 2 THEN shape[2] ELSE shape[3]
  IN  [ a \in 1..rows |->
        [ b \in 1..cols |-> ArgmaxScan(TensorLine(t, dim, a, b), 2, 1) - 1 ] ]

\* tensor.data of a two-dimensional tensor: its entries in row-major order.
TensorData(m) ==
  [ k \in 1..(Len(m) * Len(m[1])) |->
      m[((k - 1) \div Len(m[1])) + 1][((k - 1) % Len(m[1])) + 1] ]

\* The reduction taken over the rows instead of the classes.
Decoded_OverRows(out) == TensorArgmax(Squeeze0(out), 1)

\* out.squeeze(0).argmax({dim: 0}) of line 119, out of shape
\* [1, numClasses, H, W].
Decoded(out) == TensorArgmax(Squeeze0(out), 0)

\* A score tensor of shape [1, nc, h, w] scoring 1 for class hot[k] at flat
\* pixel k and 0 for every other class.
OneHot(nc, h, w, hot) ==
  << [ c \in 1..nc |->
       [ i \in 1..h |->
         [ j \in 1..w |-> IF hot[(i - 1) * w + j] = c - 1 THEN 1 ELSE 0 ] ] ] >>

\* What `await model.forward(tensor)` may resolve to for an h x w image:
\* undefined, an object without `out`, or an object with an `out` tensor.
Outputs(h, w) ==
  { [kind |-> "undefined"], [kind |-> "noOut"] } \cup
  UNION { { [kind |-> "tensor", out |-> OneHot(nc, h, w, hot)] :
              hot \in [1..(h * w) -> {0, nc - 1}] } : nc \in NumClassesChoices }

\* ------------------------------------------------------------- canvas
InitCanvas ==
  [ surface   |-> << >>,             \* drawn since the last clear()
    shown     |-> << >>,             \* the surface as of the last invalidate()
    stack     |-> << >>,             \* drawing states pushed by save()
    transform |-> << 1, 1 >>,        \* current scale, a rational
    fillStyle |-> "black" ]

CtxClear(c) == [ c EXCEPT !.surface = << >> ]

CtxInvalidate(c) == [ c EXCEPT !.shown = c.surface ]

CtxSave(c) ==
  [ c EXCEPT !.stack =
      Append(c.stack, [transform |-> c.transform, fillStyle |-> c.fillStyle]) ]

CtxRestore(c) ==
  IF c.stack = << >> THEN c
  ELSE LET top == c.stack[Len(c.stack)]
       IN  [ c EXCEPT !.stack = SubSeq(c.stack, 1, Len(c.stack) - 1),
                      !.transform = top.transform,
                      !.fillStyle = top.fillStyle ]

CtxScale(c, s) == [ c EXCEPT !.transform = RatMul(c.transform, s) ]

CtxDrawImage(c, r, w, h) ==
  [ c EXCEPT !.surface = Append(c.surface,
      [ op |-> "drawImage", run |-> r, x |-> 0, y |-> 0, w |-> w, h |-> h,
        style |-> "", t |-> c.transform ]) ]

CtxSetFillStyle(c, v) == [ c EXCEPT !.fillStyle = v ]

CtxFillRect(c, r, x, y) ==
  [ c EXCEPT !.surface = Append(c.surface,
      [ op |-> "fillRect", run |-> r, x |-> x, y |-> y, w |-> 1, h |-> 1,
        style |-> c.fillStyle, t |-> c.transform ]) ]

\* One call on the context, as a record; "throw" is the TypeError of reading
\* max.data when max is undefined.
ApplyCall(c, r, call) ==
  CASE call.c = "save"      -> CtxSave(c)
    [] call.c = "scale"     -> CtxScale(c, call.s)
    [] call.c = "drawImage" -> CtxDrawImage(c, r, call.w, call.h)
    [] call.c = "fillStyle" -> CtxSetFillStyle(c, call.v)
    [] call.c = "fillRect"  -> CtxFillRect(c, r, call.x, call.y)
    [] call.c = "restore"   -> CtxRestore(c)

RECURSIVE ApplyCalls(_, _, _, _)
ApplyCalls(c, r, calls, n) ==
  IF n = 0 THEN c
  ELSE ApplyCall(ApplyCalls(c, r, calls, n - 1), r, calls[n])

\* ------------------------------------------------------- draw sequence
\* Math.min(250 / height, windowWidth / width), as the real number the two
\* quotients stand for; DoubleDiv below gives the rounding of the JavaScript
\* number that the code holds in its place.
ScaleFactor(height, width, windowWidth) ==
  RatMin(Rat(CanvasHeight, height), Rat(windowWidth, width))

\* Significant bits of a JavaScript number (an IEEE 754 double).
MantissaBits == 53

RECURSIVE BitLen(_)
BitLen(n) == IF n = 0 THEN 0 ELSE 1 + BitLen(n \div 2)

\* Long division: `steps` more quotient bits of r / d, after k bits behind
\* the binary point; `last` is the latest quotient bit.
RECURSIVE DivBits(_, _, _, _, _)
DivBits(r, d, steps, k, last) ==
  IF steps = 0 THEN [ r |-> r, k |-> k, last |-> last ]
  ELSE DivBits((2 * r) % d, d, steps - 1, k + 1, (2 * r) \div d)

\* The zero bits behind the binary point of r / d < 1 before its first one.
RECURSIVE LeadingZeros(_, _, _)
LeadingZeros(r, d, k) ==
  IF 2 * r < d THEN LeadingZeros(2 * r, d, k + 1) ELSE [ r |-> r, k |-> k ]

\* n / d in double arithmetic, n and d positive integers: the quotient is
\* truncated to MantissaBits significant bits and rounded to nearest, ties
\* to even.  `ulp` is the number of bits kept behind the binary point, and
\* the result differs from the real n / d by err / (d * 2^ulp), downwards
\* or upwards as `dir` says.
DoubleDiv(n, d) ==
  LET ip  == n \div d
      cut == IF ip > 0
             THEN DivBits(n % d, d, MantissaBits - BitLen(ip), 0, ip % 2)
             ELSE LET z == LeadingZeros(n, d, 0)
                  IN  DivBits(z.r, d, MantissaBits, z.k, 0)
      dir == IF cut.r = 0 THEN "exact"
             ELSE IF 2 * cut.r < d THEN "down"
             ELSE IF 2 * cut.r > d THEN "up"
             ELSE IF cut.last = 0 THEN "down" ELSE "up"
  IN  [ dir |-> dir, ulp |-> cut.k,
        err |-> IF dir = "up" THEN d - cut.r ELSE cut.r, den |-> d ]

\* The paint loops reading colors[i * height + j]: rows and columns confused.
RECURSIVE PaintCalls_IndexByHeight(_, _, _, _, _)
PaintCalls_IndexByHeight(colors, height, width, i, j) ==
  IF i >= height THEN << >>
  ELSE IF j >= width
       THEN PaintCalls_IndexByHeight(colors, height, width, i + 1, 0)
  ELSE LET k    == i * height + j
           here == IF k < Len(colors) /\ colors[k + 1] > 0
                   THEN << [c |-> "fillStyle", v |-> PaletteAt(colors[k + 1])],
                           [c |-> "fillRect", x |-> j, y |-> i] >>
                   ELSE << >>
       IN  here \o PaintCalls_IndexByHeight(colors, height, width, i, j + 1)

\* The loops of lines 135-143 from pixel (i, j) on, as the calls they make.
RECURSIVE PaintCalls(_, _, _, _, _)
PaintCalls(colors, height, width, i, j) ==
  IF i >= height THEN << >>
  ELSE IF j >= width THEN PaintCalls(colors, height, width, i + 1, 0)
  ELSE LET k    == i * width + j
           \* colors[k] is undefined beyond the data, and undefined > 0 is false
           here == IF k < Len(colors) /\ colors[k + 1] > 0
                   THEN << [c |-> "fillStyle", v |-> PaletteAt(colors[k + 1])],
                           [c |-> "fillRect", x |-> j, y |-> i] >>
                   ELSE << >>
       IN  here \o PaintCalls(colors, height, width, i, j + 1)

\* Lines 126-145 as the calls made on ctx; reading max.data throws when max
\* is undefined.
DrawCalls(max, height, width, windowWidth) ==
  << [c |-> "save"],
     [c |-> "scale", s |-> ScaleFactor(height, width, windowWidth)],
     [c |-> "drawImage", w |-> width, h |-> height] >>
  \o (IF max.kind = "undefined"
      THEN << [c |-> "throw"] >>
      ELSE PaintCalls(max.data, height, width, 0, 0) \o << [c |-> "restore"] >>)

\* `output?.out.squeeze(0).argmax({dim: 0})`, then `.data`
MaxOf(output, height, width) ==
  IF output.kind = "undefined" THEN [kind |-> "undefined"]
  ELSE [kind |-> "tensor", data |-> TensorData(Decoded(output.out))]

\* ---------------------------------------------------------------- runs
InFlightPc == { "inv1", "fetch", "forward", "inv2" }

NewRun(pc, ctx, url, steps) ==
  [ pc |-> pc, ctx |-> ctx, url |-> url, fetched |-> NoUrl, image |-> NoImage,
    output |-> "none", steps |-> steps, draw |-> "none" ]

\* The url read from the selection again when the fetch is made.
FetchUrl_Selected(run) == IMAGES[imageIndex + 1]

\* The argument of ImageUtil.fromURL, line 101: the parameter imageUrl.
FetchUrl(run) == run.url

\* Line 101 reached: fromURL is called.
Fetching(run) ==
  [ run EXCEPT !.pc = "fetch", !.fetched = FetchUrl(run),
               !.steps = Append(@, "fetch") ]

\* The context read again from the ref where the run uses it.
CtxOf_Reread(run) == context2DRef

\* `ctx` of lines 96 and 121: the constant read from context2DRef.current at
\* line 95.
CtxOf(run) == run.ctx

\* The guard of line 88 left out: every press starts a run.
ModelMissing_Never(m) == FALSE

\* `model == null`, line 88
ModelMissing(m) == m = NullModel

\* The component as mounted.
Mounted ==
  /\ isReady = FALSE
  /\ model = NullModel
  /\ isProcessing = FALSE
  /\ context2DRef = NullCtx
  /\ imageIndex = 0
  /\ canvas = InitCanvas
  /\ alerts = 0
  /\ navPresses = 0
  /\ runs = << >>

NoProbe == [ fn |-> "none" ]

Init ==
  /\ Mounted
  /\ probe = NoProbe

\* --------------------------------------------------------- useModel
ModelLoaded ==
  /\ model = NullModel
  /\ model' = TheModel
  /\ UNCHANGED << probe, isReady, isProcessing, context2DRef, imageIndex, canvas,
                  alerts, navPresses, runs >>

ModelReady ==
  /\ ~isReady
  /\ isReady' = TRUE
  /\ UNCHANGED << probe, model, isProcessing, context2DRef, imageIndex, canvas,
                  alerts, navPresses, runs >>

\* --------------------------------------------------------- onContext2D
OnContext2D ==
  /\ context2DRef = NullCtx
  /\ context2DRef' = TheCtx
  /\ UNCHANGED << probe, isReady, model, isProcessing, imageIndex, canvas, alerts,
                  navPresses, runs >>

\* ----------------------------------------------------- updateImageIndex
\* updateImageIndex wrapping around at the last image instead of staying.
NextIndex_Wrap(v, diff) ==
  LET nextVal == v + diff
  IN  IF nextVal < 0 THEN v
      ELSE IF nextVal >= Len(IMAGES) THEN 0
      ELSE nextVal

NextIndex(v, diff) ==
  LET nextVal == v + diff
  IN  IF nextVal < 0 THEN v
      ELSE IF nextVal >= Len(IMAGES) THEN v
      ELSE nextVal

updateImageIndex(diff) ==
  /\ imageIndex' = NextIndex(imageIndex, diff)
  /\ navPresses' = navPresses + 1
  /\ UNCHANGED << probe, isReady, model, isProcessing, context2DRef, canvas, alerts,
                  runs >>

\* onPress of 'Prev', lines 171-173.
PressPrev ==
  /\ navPresses < MaxNavPresses
  /\ updateImageIndex(-1)

\* onPress of 'Next', lines 177-179.
PressNext ==
  /\ navPresses < MaxNavPresses
  /\ updateImageIndex(1)

\* ---------------------------------------------------------- handleImage
\* Lines 93-99 and the call of line 101: the record of a run that passed the
\* model check, up to its first await.
StartedRun(ctx, url) ==
  IF ctx # NullCtx
  THEN NewRun("inv1", ctx, url, << "setProcessing", "clear", "invalidate" >>)
  ELSE Fetching(NewRun("start", ctx, url, << "setProcessing" >>))

\* onPress of 'Segment pictures': handleImage(IMAGES[imageIndex]), lines
\* 83-99, up to the first await, while fewer than maxRuns presses were made.
SegmentPressUpTo(maxRuns) ==
  /\ isReady
  /\ Len(runs) < maxRuns
  /\ LET imageUrl == IMAGES[imageIndex + 1]
         ctx      == context2DRef
     IN  IF ModelMissing(model)
         THEN /\ alerts' = alerts + 1
              /\ runs' = Append(runs, NewRun("rejected", NullCtx, imageUrl, << >>))
              /\ UNCHANGED << isProcessing, canvas >>
         ELSE /\ isProcessing' = TRUE
              /\ canvas' = IF ctx # NullCtx
                           THEN CtxInvalidate(CtxClear(canvas))
                           ELSE canvas
              /\ runs' = Append(runs, StartedRun(ctx, imageUrl))
              /\ UNCHANGED alerts
  /\ UNCHANGED << probe, isReady, model, context2DRef, imageIndex, navPresses >>

SegmentPress == SegmentPressUpTo(MaxRuns)

\* A rejected promise or a throw: the async function ends there (no catch,
\* no finally in handleImage).
Failed(run) == [ run EXCEPT !.pc = "failed" ]

\* `await ctx.invalidate()` of line 98 resolves; line 101 calls fromURL.
ClearInvalidated(r) ==
  /\ runs[r].pc = "inv1"
  /\ runs' = [ runs EXCEPT ![r] = Fetching(@) ]
  /\ UNCHANGED << probe, isReady, model, isProcessing, context2DRef, imageIndex,
                  canvas, alerts, navPresses >>

\* An awaited promise rejects: ctx.invalidate() (98, 147),
\* ImageUtil.fromURL (101) or model.forward (117).
AwaitRejected(r) ==
  /\ runs[r].pc \in InFlightPc
  /\ runs' = [ runs EXCEPT ![r] = Failed(@) ]
  /\ UNCHANGED << probe, isReady, model, isProcessing, context2DRef, imageIndex,
                  canvas, alerts, navPresses >>

\* model.forward called without the input tensor having been built.
AfterFetch_SkipsPreprocess(run, image) ==
  [ run EXCEPT !.pc = "forward", !.image = image,
               !.steps = Append(@, "forward") ]

\* Lines 102-117 after fromURL resolved with `image`: the tensor is built and
\* model.forward is called.
AfterFetch(run, image) ==
  [ run EXCEPT !.pc = "forward", !.image = image,
               !.steps = @ \o << "preprocess", "forward" >> ]

\* Lines 102-115 throw (media.toBlob, torch.fromBlob, normalize ...).
PreprocessThrows(run, image) ==
  [ Failed(run) EXCEPT !.image = image, !.steps = Append(@, "preprocess") ]

ImageFetched(r) ==
  /\ runs[r].pc = "fetch"
  /\ \E image \in ImageDims :
       \/ runs' = [ runs EXCEPT ![r] = AfterFetch(@, image) ]
       \/ runs' = [ runs EXCEPT ![r] = PreprocessThrows(@, image) ]
  /\ UNCHANGED << probe, isReady, model, isProcessing, context2DRef, imageIndex,
                  canvas, alerts, navPresses >>

\* Where a draw sequence may throw: 0 says nowhere, k says at its k-th call.
\* The calls that hand the run's data to the canvas (drawImage, fillRect)
\* may throw; reading max.data of an undefined max, the last call of such a
\* sequence, always throws when it is reached, so that no such sequence runs
\* to its end.
FailPoints(calls) ==
  { k \in 1..Len(calls) : calls[k].c \in {"drawImage", "fillRect", "throw"} }
  \cup (IF calls[Len(calls)].c = "throw" THEN { } ELSE {0})

\* Line 119 as a step of the run: the optional chain calls squeeze and
\* argmax only when model.forward resolved to something.
DecodeSteps(output) ==
  IF output.kind = "undefined" THEN << >> ELSE << "argmax" >>

\* Lines 119-147 for a run that has a context: the draw sequence `calls`
\* with the failAt-th call throwing (0: none does), then ctx.invalidate().
Render(r, output, calls, failAt) ==
  IF failAt = 0
  THEN /\ canvas' = CtxInvalidate(ApplyCalls(canvas, r, calls, Len(calls)))
       /\ runs' = [ runs EXCEPT ![r].pc = "inv2", ![r].draw = "complete",
                      ![r].output = output.kind,
                      ![r].steps = @ \o DecodeSteps(output)
                                     \o << "draw", "invalidate" >> ]
  ELSE /\ canvas' = ApplyCalls(canvas, r, calls, failAt - 1)
       /\ runs' = [ runs EXCEPT ![r].pc = "failed", ![r].draw = "partial",
                      ![r].output = output.kind,
                      ![r].steps = @ \o DecodeSteps(output) \o << "draw" >> ]

\* Lines 119-150 after model.forward resolved with `output`.
ForwardResolved(r) ==
  /\ runs[r].pc = "forward"
  /\ \E output \in Outputs(runs[r].image[1], runs[r].image[2]) :
       IF output.kind = "noOut"
       THEN \* output.out is undefined: .squeeze throws
            /\ runs' = [ runs EXCEPT ![r].pc = "failed",
                                     ![r].output = output.kind,
                                     ![r].steps = @ \o DecodeSteps(output) ]
            /\ UNCHANGED << isProcessing, canvas >>
       ELSE IF CtxOf(runs[r]) # NullCtx
       THEN /\ \E windowWidth \in WindowWidths :
                 \E calls \in { DrawCalls(
                                   MaxOf(output, runs[r].image[1], runs[r].image[2]),
                                   runs[r].image[1], runs[r].image[2],
                                   windowWidth) } :
                   \E failAt \in FailPoints(calls) :
                     Render(r, output, calls, failAt)
            /\ UNCHANGED isProcessing
       ELSE /\ isProcessing' = FALSE
            /\ runs' = [ runs EXCEPT ![r].pc = "done",
                           ![r].output = output.kind,
                           ![r].steps = @ \o DecodeSteps(output)
                                          \o << "clearProcessing" >> ]
            /\ UNCHANGED canvas
  /\ UNCHANGED << probe, isReady, model, context2DRef, imageIndex, alerts,
                  navPresses >>

\* `await ctx.invalidate()` of line 147 resolves; line 150.
DrawInvalidated(r) ==
  /\ runs[r].pc = "inv2"
  /\ isProcessing' = FALSE
  /\ runs' = [ runs EXCEPT ![r].pc = "done",
                           ![r].steps = Append(@, "clearProcessing") ]
  /\ UNCHANGED << probe, isReady, model, context2DRef, imageIndex, canvas, alerts,
                  navPresses >>

Next ==
  \/ ModelLoaded
  \/ ModelReady
  \/ OnContext2D
  \/ PressPrev
  \/ PressNext
  \/ SegmentPress
  \/ \E r \in 1..Len(runs) : ClearInvalidated(r)
  \/ \E r \in 1..Len(runs) : AwaitRejected(r)
  \/ \E r \in 1..Len(runs) : ImageFetched(r)
  \/ \E r \in 1..Len(runs) : ForwardResolved(r)
  \/ \E r \in 1..Len(runs) : DrawInvalidated(r)

Spec == Init /\ [][Next]_vars

\* The event loop resumes a suspended run once its awaited promise settles:
\* every awaited call (invalidate, fromURL, forward) eventually completes.
RunStep(r) ==
  /\ r <= Len(runs)
  /\ \/ ClearInvalidated(r)
     \/ ImageFetched(r)
     \/ ForwardResolved(r)
     \/ DrawInvalidated(r)

SpecFair == Spec /\ \A r \in 1..MaxRuns : WF_vars(RunStep(r))

\* ------------------------------------------------- the draw sequence alone
\* Class indices of the masks painted on their own: background, the first
\* and the last class of the palette, and the first index beyond it.
MaskClasses == { 0, 1, Len(PALETTE) - 1, Len(PALETTE) }

\* The masks of shape [height, width]: mask[i][j], 1-based here.
Masks(height, width) == [ 1..height -> [ 1..width -> MaskClasses ] ]

\* max.data of a [height, width] tensor: its entries in row-major order.
Flatten(mask, height, width) ==
  [ k \in 1..(height * width) |->
      mask[((k - 1) \div width) + 1][((k - 1) % width) + 1] ]

InitPaint ==
  /\ Mounted
  /\ \E height \in 1..MaxSide, width \in 1..MaxSide :
       \E mask \in Masks(height, width), windowWidth \in WindowWidths :
         probe = [ fn |-> "paint", height |-> height, width |-> width,
                   mask |-> mask, windowWidth |-> windowWidth,
                   done |-> FALSE, surface |-> << >>, depth |-> 0 ]

\* Lines 121-145 on a fresh canvas for the probe's image and mask.
Paint ==
  /\ probe.fn = "paint"
  /\ ~probe.done
  /\ \E calls \in { DrawCalls(
                       [ kind |-> "tensor",
                         data |-> Flatten(probe.mask, probe.height, probe.width) ],
                       probe.height, probe.width, probe.windowWidth) } :
       \E c \in { ApplyCalls(InitCanvas, 1, calls, Len(calls)) } :
         probe' = [ probe EXCEPT !.done = TRUE, !.surface = c.surface,
                                 !.depth = Len(c.stack) ]
  /\ UNCHANGED << isReady, model, isProcessing, context2DRef, imageIndex,
                  canvas, alerts, navPresses, runs >>

NextPaint == Paint

SpecPaint == InitPaint /\ [][NextPaint]_vars

\* ------------------------------------------------- mask decoding alone
\* Scores of the tensors decoded on their own; two values give every pattern
\* of ties and strict maxima among the classes.
ScoreValues == { 0, 1 }

\* Heights and widths of the tensors decoded on their own.
DecodeDims == { << 1, 1 >>, << 1, 2 >>, << 2, 1 >>, << 2, 2 >> }

\* The score tensors out[1][c][i][j] of shape [1, nc, h, w].
Tensors(nc, h, w) ==
  { << t >> : t \in [ 1..nc -> [ 1..h -> [ 1..w -> ScoreValues ] ] ] }

InitDecode ==
  /\ Mounted
  /\ \E nc \in 1..MaxClasses, d \in DecodeDims :
       \E out \in Tensors(nc, d[1], d[2]) :
         probe = [ fn |-> "decode", nc |-> nc, height |-> d[1],
                   width |-> d[2], out |-> out, done |-> FALSE,
                   mask |-> << >>, data |-> << >> ]

\* Line 119 on the probe's tensor, and max.data of line 134.
Decode ==
  /\ probe.fn = "decode"
  /\ ~probe.done
  /\ \E max \in { Decoded(probe.out) } :
       probe' = [ probe EXCEPT !.done = TRUE, !.mask = max,
                               !.data = TensorData(max) ]
  /\ UNCHANGED << isReady, model, isProcessing, context2DRef, imageIndex,
                  canvas, alerts, navPresses, runs >>

NextDecode == Decode

SpecDecode == InitDecode /\ [][NextDecode]_vars

\* ------------------------------------------------- the scale factor alone
\* Window widths the scale factor is computed for on its own.
ScaleWindowWidths == { 320, 400 }

ScaleHeights == (1..MaxScaleSide) \cup { CanvasHeight }

ScaleWidths == (1..MaxScaleSide) \cup ScaleWindowWidths

\* The probe's fields before line 124 has run.
NotComputed == [ dir |-> "none", ulp |-> 0, err |-> 0, den |-> 1 ]

InitScale ==
  /\ Mounted
  /\ \E height \in ScaleHeights, width \in ScaleWidths :
       \E windowWidth \in ScaleWindowWidths :
         probe = [ fn |-> "scale", height |-> height, width |-> width,
                   windowWidth |-> windowWidth, done |-> FALSE,
                   real |-> << 0, 1 >>, double |-> NotComputed ]

\* Line 124 for the probe's image and window: the real minimum of the two
\* quotients and its rounding to a double (division is monotone, so the
\* smaller double is the rounding of the smaller quotient).
Scale ==
  /\ probe.fn = "scale"
  /\ ~probe.done
  /\ \E q \in { ScaleFactor(probe.height, probe.width, probe.windowWidth) } :
       probe' = [ probe EXCEPT !.done = TRUE, !.real = q,
                               !.double = DoubleDiv(q[1], q[2]) ]
  /\ UNCHANGED << isReady, model, isProcessing, context2DRef, imageIndex,
                  canvas, alerts, navPresses, runs >>

NextScale == Scale

SpecScale == InitScale /\ [][NextScale]_vars

\* Navigation followed far enough to walk from the first image to the last
\* and press once more, beside a single run of handleImage.
NavWalk == Len(IMAGES) + 1

NavPrev ==
  /\ navPresses < NavWalk
  /\ updateImageIndex(-1)

NavNext ==
  /\ navPresses < NavWalk
  /\ updateImageIndex(1)

NavSegmentPress == SegmentPressUpTo(1)

NextNav ==
  \/ ModelLoaded
  \/ ModelReady
  \/ OnContext2D
  \/ NavPrev
  \/ NavNext
  \/ NavSegmentPress
  \/ \E r \in 1..Len(runs) : ClearInvalidated(r)
  \/ \E r \in 1..Len(runs) : AwaitRejected(r)
  \/ \E r \in 1..Len(runs) : ImageFetched(r)
  \/ \E r \in 1..Len(runs) : ForwardResolved(r)
  \/ \E r \in 1..Len(runs) : DrawInvalidated(r)

SpecNav == Init /\ [][NextNav]_vars

\* ===================================================================
\* Properties
\* ===================================================================
Runs == 1..Len(runs)

InFlight(r) == runs[r].pc \in InFlightPc

IsPrefix(p, q) == Len(p) <= Len(q) /\ SubSeq(q, 1, Len(p)) = p

\* The steps of a run in the order the claim gives them.
FullOrder ==
  << "setProcessing", "clear", "invalidate", "fetch", "preprocess", "forward",
     "argmax", "draw", "invalidate", "clearProcessing" >>

\* The order of a run started without a canvas context: no clear and
\* invalidate, no Rendering.
NoCtxOrder ==
  << "setProcessing", "fetch", "preprocess", "forward", "argmax",
     "clearProcessing" >>

\* The order without its Decoding step.
WithoutArgmax(order) == SelectSeq(order, LAMBDA step : step # "argmax")

\* The order of a run by the context it read at its start and by what its
\* model.forward resolved to ("none" while it has not).
ExpectedSteps(ctx, output) ==
  LET order == IF ctx # NullCtx THEN FullOrder ELSE NoCtxOrder
  IN  IF output = "undefined" THEN WithoutArgmax(order) ELSE order

\* C1: at most one run of handleImage is in flight (started and not yet
\* finished or failed) at any time.
C1_AtMostOneRunInFlight == Cardinality({ r \in Runs : InFlight(r) }) <= 1

\* C2: a step failure ends the run and returns the orchestrator to Idle: once
\* a run has failed and no run is in flight, isProcessing is false, and no
\* overlay rectangle of the failed run is on the surface.
C2_FailureReturnsToIdle ==
  \A r \in Runs :
    runs[r].pc = "failed" =>
      /\ (\A q \in Runs : ~InFlight(q)) => ~isProcessing
      /\ \A k \in 1..Len(canvas.surface) :
           ~(canvas.surface[k].run = r /\ canvas.surface[k].op = "fillRect")

\* C3: a press of 'Segment pictures' while model is null only raises the
\* notice: isProcessing stays false, the canvas (surface, shown, transform) is
\* untouched, selectedImageIndex is unchanged, and the rejected call never
\* performs a step (no clear, no fetch, no forward) afterwards.
C3_RejectedWhenModelMissing ==
  [][ ((model = NullModel /\ Len(runs') > Len(runs)) =>
         (/\ ~isProcessing
          /\ ~isProcessing'
          /\ canvas' = canvas
          /\ imageIndex' = imageIndex
          /\ alerts' = alerts + 1
          /\ runs'[Len(runs')].pc = "rejected"
          /\ runs'[Len(runs')].steps = << >>))
      /\ (\A r \in Runs : runs[r].pc = "rejected" => runs'[r] = runs[r])
    ]_vars

\* C3 witness: a press was made while the model was null.
C3_Witness == \E r \in Runs : runs[r].pc = "rejected" /\ alerts > 0

\* C4: isProcessing is true exactly when some run is in flight.
C4_ProcessingIffInFlight == isProcessing <=> (\E r \in Runs : InFlight(r))

\* C5: when a run's final invalidate (line 147) commits the surface, every
\* image and rectangle on it was drawn by that run.
C5_OnlyOwnDrawsCommitted ==
  [][ \A r \in Runs :
        (runs[r].pc = "forward" /\ runs'[r].pc = "inv2") =>
          \A k \in 1..Len(canvas'.shown) : canvas'.shown[k].run = r
    ]_vars

\* C6: every save is matched by a restore on every exit path, so between
\* draw sequences the transform stack is at its initial depth and the
\* transform is the initial one.
C6_SaveRestoreBalanced ==
  /\ Len(canvas.stack) = 0
  /\ canvas.transform = InitCanvas.transform

\* C7: the selected image index is always in [0, IMAGES.length-1]; Prev at 0
\* and Next at the last index leave it unchanged, every other press moves it
\* by exactly 1 in the pressed direction, and nothing else changes it.
C7_NavigationClamped ==
  /\ [](imageIndex \in 0..(Len(IMAGES) - 1))
  /\ [][ (NavPrev =>
            imageIndex' = (IF imageIndex = 0 THEN 0 ELSE imageIndex - 1))
         /\ (NavNext =>
            imageIndex' = (IF imageIndex = Len(IMAGES) - 1
                           THEN imageIndex ELSE imageIndex + 1))
         /\ (navPresses' = navPresses => imageIndex' = imageIndex)
       ]_vars

\* C7 witness: the last image was reached and one more press was made.
C7_Witness == imageIndex = Len(IMAGES) - 1 /\ navPresses = Len(IMAGES)

\* C8: no rectangle is ever painted with the undefined colour of a class
\* index beyond the palette.
C8_NoUndefinedColourPainted ==
  \A k \in 1..Len(canvas.surface) : canvas.surface[k].style # Undefined

\* C9: what an invalidate commits is a cleared surface or complete draw
\* sequences only: every drawing shown belongs to a run whose draw sequence
\* ran from save to restore.
C9_NoPartialRenderingShown ==
  \A k \in 1..Len(canvas.shown) : runs[canvas.shown[k].run].draw = "complete"

\* C10 as stated: the steps an accepted run has performed are an initial
\* part of the full order, each once and none skipped; a run that finishes
\* has performed all of them; a run draws only when a model output exists.
C10_EveryStepPerformed ==
  \A r \in Runs :
    runs[r].pc # "rejected" =>
      /\ IsPrefix(runs[r].steps, FullOrder)
      /\ runs[r].pc = "done" => runs[r].steps = FullOrder
      /\ runs[r].draw # "none" => runs[r].output = "tensor"

\* C10 as amended: the same, with the two exceptions the code makes.  A run
\* started without a canvas context has the order without clear/invalidate
\* and without Rendering; a run whose model.forward resolved to undefined has
\* the order without argmax.  The steps performed are an initial part of the
\* run's order and only ever grow at their end, a run that finishes has
\* performed all of them, no run draws before its model.forward has
\* resolved, and none with a model output draws before argmax.
C10_StepsInFixedOrder ==
  [][ \A r \in 1..Len(runs') :
        runs'[r].pc # "rejected" =>
          /\ (r <= Len(runs)) => IsPrefix(runs[r].steps, runs'[r].steps)
          /\ IsPrefix(runs'[r].steps,
                      ExpectedSteps(runs'[r].ctx, runs'[r].output))
          /\ (runs'[r].pc = "done") =>
               (runs'[r].steps = ExpectedSteps(runs'[r].ctx, runs'[r].output))
          /\ (runs'[r].draw # "none") =>
               /\ runs'[r].output # "none"
               /\ \E k \in 1..Len(runs'[r].steps) :
                    /\ k > 1
                    /\ runs'[r].steps[k] = "draw"
                    /\ runs'[r].steps[k - 1] =
                         IF runs'[r].output = "undefined" THEN "forward"
                         ELSE "argmax"
    ]_vars

\* C10 witness: a run with a canvas context and a model output has finished
\* all ten steps, and a run started without a context, whose model.forward
\* resolved to undefined, has finished too.
C10_Witness ==
  /\ \E r \in Runs :
       /\ runs[r].pc = "done"
       /\ runs[r].ctx # NullCtx
       /\ runs[r].output = "tensor"
       /\ runs[r].steps = FullOrder
  /\ \E r \in Runs :
       /\ runs[r].pc = "done"
       /\ runs[r].ctx = NullCtx
       /\ runs[r].output = "undefined"

\* Where the r-th call of handleImage stands; "none" before it is made.
PcOf(r) == IF r <= Len(runs) THEN runs[r].pc ELSE "none"

\* C11: under fairness, with every awaited call eventually completing, each
\* run that set isProcessing eventually leaves flight with isProcessing false
\* again.
C11_EveryRunReturnsToIdle ==
  \A r \in 1..MaxRuns :
    (PcOf(r) \in InFlightPc) ~> (PcOf(r) \notin InFlightPc /\ ~isProcessing)

\* The rectangle a fillRect drew: << x, y, width, height, colour >>.
RectOf(op) == << op.x, op.y, op.w, op.h, op.style >>

\* C12: one render of an H x W mask draws the image first and then exactly
\* one unit rectangle (j, i, 1, 1) in colour PALETTE[mask[i][j]] (a
\* JavaScript array read) for each position with mask[i][j] # 0, none for a
\* position with mask[i][j] = 0, and so no rectangle at all for an all-zero
\* mask.
C12_PaintsExactlyForeground ==
  (probe.fn = "paint" /\ probe.done) =>
    LET out   == probe.surface
        rects == { k \in 1..Len(out) : out[k].op = "fillRect" }
        want  == { << j, i, 1, 1, PaletteAt(probe.mask[i + 1][j + 1]) >> :
                     << i, j >> \in
                       { p \in (0..(probe.height - 1)) \X (0..(probe.width - 1)) :
                           probe.mask[p[1] + 1][p[2] + 1] # 0 } }
    IN  /\ Len(out) >= 1
        /\ out[1].op = "drawImage"
        /\ rects = 2..Len(out)
        /\ { RectOf(out[k]) : k \in rects } = want
        /\ Cardinality(rects) = Cardinality(want)

\* C12 witness: a mask taller and wider than one pixel, with background and
\* foreground positions, was rendered.
C12_Witness ==
  /\ probe.fn = "paint"
  /\ probe.done
  /\ probe.height > 1
  /\ probe.width > 1
  /\ Len(probe.surface) > 1
  /\ \E i \in 1..probe.height, j \in 1..probe.width : probe.mask[i][j] = 0

\* The score of class c (from 0) at pixel (i, j) (from 0) of the probe's
\* output tensor.
ScoreAt(p, c, i, j) == p.out[1][c + 1][i + 1][j + 1]

\* C13: the mask decoded from an output of shape [numClasses, H, W] has
\* shape [H, W]; for every pixel (i, j), mask[i][j] is a class in
\* 0..numClasses-1 whose score is maximal there and is the smallest such
\* class.  This fixes the mask as a function of the output, so that the same
\* output has one mask only.  max.data holds the mask in row-major order.
C13_ArgmaxLowestIndex ==
  (probe.fn = "decode" /\ probe.done) =>
    /\ Len(probe.mask) = probe.height
    /\ \A i \in 1..probe.height : Len(probe.mask[i]) = probe.width
    /\ Len(probe.data) = probe.height * probe.width
    /\ \A i \in 0..(probe.height - 1), j \in 0..(probe.width - 1) :
         LET m == probe.mask[i + 1][j + 1]
         IN  /\ m \in 0..(probe.nc - 1)
             /\ \A c \in 0..(probe.nc - 1) :
                  ScoreAt(probe, c, i, j) <= ScoreAt(probe, m, i, j)
             /\ \A c \in 0..(m - 1) :
                  ScoreAt(probe, c, i, j) < ScoreAt(probe, m, i, j)
             /\ probe.data[i * probe.width + j + 1] = m

\* C13 witness: a decoded tensor with more classes than rows, in which one
\* pixel has a tie for the maximum between two classes and another pixel has
\* its maximum at a class other than the first.
C13_Witness ==
  /\ probe.fn = "decode"
  /\ probe.done
  /\ probe.nc > probe.height
  /\ \E i \in 0..(probe.height - 1), j \in 0..(probe.width - 1) :
       \E c \in 0..(probe.nc - 1), d \in 0..(probe.nc - 1) :
         /\ c < d
         /\ ScoreAt(probe, c, i, j) = ScoreAt(probe, d, i, j)
         /\ \A e \in 0..(probe.nc - 1) :
              ScoreAt(probe, e, i, j) <= ScoreAt(probe, c, i, j)
  /\ \E i \in 1..probe.height, j \in 1..probe.width : probe.mask[i][j] > 0

\* p.real * side compared with box, exactly.
RealFits(p, side, box) == p.real[1] * side <= box * p.real[2]

RealFills(p, side, box) == p.real[1] * side = box * p.real[2]

\* The rounding error of the double, scaled by side, is smaller than the
\* gap the real product leaves to the box: side / 2^(ulp + 1) < 1 / real[2].
GapCoversError(p, side) == BitLen(side * p.real[2]) <= p.double.ulp + 1

\* s * side <= box for the double s the code computed, the product taken
\* exactly.
DoubleFits(p, side, box) ==
  IF RealFills(p, side, box) THEN p.double.dir # "up"
  ELSE RealFits(p, side, box) /\ GapCoversError(p, side)

\* s * side = box for the double s the code computed, the product taken
\* exactly.
DoubleFills(p, side, box) == RealFills(p, side, box) /\ p.double.dir = "exact"

\* C14: the computed s has s * width <= windowWidth and s * height <= 250,
\* with equality on at least one axis, and s = 1 when the box is the image's
\* own size.
C14_ScaledImageFitsBox ==
  (probe.fn = "scale" /\ probe.done) =>
    /\ DoubleFits(probe, probe.width, probe.windowWidth)
    /\ DoubleFits(probe, probe.height, CanvasHeight)
    /\ \/ DoubleFills(probe, probe.width, probe.windowWidth)
       \/ DoubleFills(probe, probe.height, CanvasHeight)
    /\ (probe.width = probe.windowWidth /\ probe.height = CanvasHeight) =>
         (probe.real = << 1, 1 >> /\ probe.double.dir = "exact")

\* C14 amended: the real number q = min(250 / height, windowWidth / width)
\* fits the box with equality on at least one axis; the computed s is q
\* rounded to the nearest double, so the axis that q fills is filled by s
\* only when the division is exact and is otherwise missed, from below or
\* from above, by at most half a unit in the last place of s, while the
\* other axis still fits; s = 1 when the box is the image's own size.
C14_FitsUpToRounding ==
  (probe.fn = "scale" /\ probe.done) =>
    /\ RealFits(probe, probe.width, probe.windowWidth)
    /\ RealFits(probe, probe.height, CanvasHeight)
    /\ \/ RealFills(probe, probe.width, probe.windowWidth)
       \/ RealFills(probe, probe.height, CanvasHeight)
    /\ 2 * probe.double.err <= probe.double.den
    /\ (probe.double.dir = "exact") <=> (probe.double.err = 0)
    /\ ~RealFills(probe, probe.width, probe.windowWidth) =>
         DoubleFits(probe, probe.width, probe.windowWidth)
    /\ ~RealFills(probe, probe.height, CanvasHeight) =>
         DoubleFits(probe, probe.height, CanvasHeight)
    /\ (probe.double.dir = "exact") =>
         /\ DoubleFits(probe, probe.width, probe.windowWidth)
         /\ DoubleFits(probe, probe.height, CanvasHeight)
    /\ (probe.width = probe.windowWidth /\ probe.height = CanvasHeight) =>
         (probe.real = << 1, 1 >> /\ probe.double.dir = "exact")

\* C14 witness: a scale factor whose division rounded upwards on the axis
\* that limits it, for an image that is not the box's own size.
C14_Witness ==
  /\ probe.fn = "scale"
  /\ probe.done
  /\ probe.double.dir = "up"
  /\ RealFills(probe, probe.width, probe.windowWidth)
  /\ ~RealFills(probe, probe.height, CanvasHeight)

\* The runs whose drawings are on the surface or on the committed surface.
Drawers(c) ==
  { c.surface[k].run : k \in 1..Len(c.surface) } \cup
  { c.shown[k].run : k \in 1..Len(c.shown) }

\* C15: a run's image is the one selected when Segment was pressed: the url
\* of a new run is IMAGES[imageIndex] of the press, no later step (a Prev or
\* Next press included) changes a run's url, the url a run fetches is that
\* url, every run whose drawings are on the surface fetched its press-time
\* url, and a step of a run leaves imageIndex alone.
C15_RunBoundToPressTimeImage ==
  [][ /\ Len(runs') >= Len(runs)
      /\ \A r \in 1..Len(runs) :
           /\ runs'[r].url = runs[r].url
           /\ runs'[r].fetched \in
                IF runs[r].fetched = NoUrl THEN { NoUrl, runs[r].url }
                ELSE { runs[r].fetched }
      /\ \A r \in (Len(runs) + 1)..Len(runs') :
           /\ runs'[r].url = IMAGES[imageIndex + 1]
           /\ runs'[r].fetched \in { NoUrl, IMAGES[imageIndex + 1] }
      /\ \A r \in Drawers(canvas') : runs'[r].fetched = runs'[r].url
      /\ (runs' # runs) => (imageIndex' = imageIndex)
    ]_vars

\* C15 witness: a run has finished and its drawing is committed while the
\* selected image is no longer the one it was pressed for.
C15_Witness ==
  \E r \in 1..Len(runs) :
    /\ runs[r].pc = "done"
    /\ runs[r].draw = "complete"
    /\ runs[r].fetched = runs[r].url
    /\ runs[r].url # IMAGES[imageIndex + 1]
    /\ \E k \in 1..Len(canvas.shown) :
         canvas.shown[k].run = r /\ canvas.shown[k].op = "fillRect"

\* C16: the context an accepted run works with is the one read at its start.
\* A run started without a context performs no clear, no draw and no invalidate:
\* its steps leave the canvas as it is and none of the drawings is its own,
\* also after the context has arrived, and when it finishes isProcessing is
\* false.  A run started with a context has cleared and invalidated before
\* it draws.
C16_DrawsOnlyOnClearedContext ==
  [][ \A r \in { x \in 1..Len(runs') : runs'[x].pc # "rejected" } :
        /\ (r <= Len(runs)) => (runs'[r].ctx = runs[r].ctx)
        /\ (r > Len(runs)) => (runs'[r].ctx = context2DRef)
        /\ (runs'[r].ctx = NullCtx) =>
             /\ r \notin Drawers(canvas')
             /\ \A k \in 1..Len(runs'[r].steps) :
                  runs'[r].steps[k] \notin { "clear", "draw", "invalidate" }
             /\ (r > Len(runs) \/ runs'[r] # runs[r]) => (canvas' = canvas)
             /\ (runs'[r].pc = "done" /\ (r > Len(runs) \/ runs[r].pc # "done"))
                  => ~isProcessing'
        /\ (runs'[r].ctx # NullCtx) =>
             /\ Len(runs'[r].steps) >= 3
             /\ runs'[r].steps[2] = "clear"
             /\ runs'[r].steps[3] = "invalidate"
             /\ \A k \in 1..3 : runs'[r].steps[k] # "draw"
    ]_vars

\* C16 witness: a run started without a context has finished after the
\* context arrived, and the canvas shows nothing.
C16_Witness ==
  \E r \in 1..Len(runs) :
    /\ runs[r].ctx = NullCtx
    /\ runs[r].pc = "done"
    /\ context2DRef = TheCtx
    /\ canvas.surface = << >>
    /\ ~isProcessing

====
